---- MODULE Spec2Model ----
(***************************************************************************)
(* Model of the frame pipe sink of scrcpy (app/src/frame_pipe_sink.c):     *)
(* the sink instance (struct sc_frame_pipe_sink), its three operations     *)
(* open / push / close, the packet encoders write_header, write_pts and    *)
(* write_frame_data, and the operating-system objects they act on (the     *)
(* FIFO entry at pipe_path, the descriptor table, the bytes accepted by    *)
(* the pipe).                                                              *)
(***************************************************************************)
EXTENDS Integers, Sequences, FiniteSets, TLC

VARIABLES
    fps,        \* struct sc_frame_pipe_sink: fd, stopped, width, height,
                \* time_base, frame_buf, frame_buf_size
    fifo,       \* the entry at fps->pipe_path: "absent", "stale" or "own"
    stream,     \* the writes the pipe behind fps->fd accepted since open();
                \* empty while the instance holds no descriptor
    op,         \* the operation that ran last
    ret,        \* its return value (close returns nothing: TRUE)
    calls,      \* the system calls it issued, in order, with their results
    logs,       \* the log levels it emitted, in order
    open_fail,  \* history: how the last open failed, "none" after a success
    open_tb,    \* history: the time base the last call of open was given
    pts_in,     \* encoder check: a timestamp in microseconds
    pts_buf,    \* encoder check: the 8 bytes write_pts builds for pts_in
    frame_in,   \* encoder check: an input frame
    direct_out, \* encoder check: the bytes the writev path hands to the pipe
    copy_out,   \* encoder check: the bytes the copy path hands to the pipe
    data_out,   \* encoder check: the bytes write_frame_data hands to the pipe
    hdr_in,     \* encoder check: the <<width, height>> given to write_header
    hdr_buf     \* encoder check: the 12 bytes write_header builds for hdr_in

sinkvars == <<fps, fifo, stream, op, ret, calls, logs, open_fail,
              open_tb>>
encvars == <<pts_in, pts_buf, frame_in, direct_out, copy_out, data_out,
             hdr_in, hdr_buf>>
vars == <<fps, fifo, stream, op, ret, calls, logs, open_fail,
          open_tb,
          pts_in, pts_buf, frame_in, direct_out, copy_out, data_out,
          hdr_in, hdr_buf>>

---------------------------------------------------------------------------
(* Bounds of the model *)

\* pushes that reach the pipe after one open()
MaxPush == 4
\* pixel patterns of the frames the encoder check draws
MaxPattern == 1
\* padding bytes per row of the frames the encoder check draws
MaxPad == 1

---------------------------------------------------------------------------
(* Program constants *)

\* sizeof(header) in write_header
HeaderSize == 12
\* sizeof(buf) in write_pts
PtsSize == 8
\* stand-in for AV_NOPTS_VALUE (INT64_MIN): a value no frame timestamp takes
AV_NOPTS_VALUE == -2147483647
\* the destination time base of av_rescale_q: (AVRational){1, 1000000}
MicrosPerSecond == 1000000

\* "YUV4"
Magic == <<89, 85, 86, 52>>

---------------------------------------------------------------------------
(* Integer helpers *)

RECURSIVE Shr8(_, _)
\* x >> (8 * i), an arithmetic shift (floor division, sign kept)
Shr8(x, i) == IF i = 0 THEN x ELSE Shr8(x \div 256, i - 1)

\* (x >> (8 * i)) & 0xFF
ByteAt(x, i) == Shr8(x, i) % 256

RECURSIVE FlattenRows(_)
FlattenRows(rows) ==
    IF rows = <<>> THEN <<>> ELSE Head(rows) \o FlattenRows(Tail(rows))

---------------------------------------------------------------------------
(* Packet encoders: the buffers the three writers build *)

\* mutant: the two fields are written most significant byte first
HeaderBytes_BigEndian(w, h) ==
    Magic \o [i \in 1..4 |-> ByteAt(w, 4 - i)] \o [i \in 1..4 |-> ByteAt(h, 4 - i)]

\* mutant: the height field comes before the width field
HeaderBytes_HeightFirst(w, h) ==
    Magic \o [i \in 1..4 |-> ByteAt(h, i - 1)] \o [i \in 1..4 |-> ByteAt(w, i - 1)]

\* header[0..11] of write_header
HeaderBytes(w, h) ==
    Magic \o [i \in 1..4 |-> ByteAt(w, i - 1)] \o [i \in 1..4 |-> ByteAt(h, i - 1)]

\* An int64_t is held as three limbs, value = hi * 2^48 + mid * 2^24 + lo,
\* with lo and mid in 0 .. 2^24 - 1 and hi in -2^15 .. 2^15 - 1 (its sign).
Limb == 16777216

\* the int64_t that holds the integer x
Int64(x) ==
    [hi |-> IF x < 0 THEN -1 ELSE 0, mid |-> (x \div Limb) % Limb, lo |-> x % Limb]

\* mutant: the value is cut to 32 bits before the shifts
Int64Byte_Low32(v, i) ==
    IF i < 3 THEN ByteAt(v.lo, i)
    ELSE IF i = 3 THEN ByteAt(v.mid, 0) ELSE 0

\* (v >> (8 * i)) & 0xFF on an int64_t, for i in 0 .. 7
Int64Byte(v, i) ==
    IF i < 3 THEN ByteAt(v.lo, i)
    ELSE IF i < 6 THEN ByteAt(v.mid, i - 3) ELSE ByteAt(v.hi, i - 6)

\* buf[0..7] of write_pts
PtsBytes(pts_us) == [i \in 1..PtsSize |-> Int64Byte(pts_us, i - 1)]

\* a reader's decoding of a little-endian unsigned 32-bit field
RECURSIVE DecodeLE(_)
DecodeLE(bytes) ==
    IF bytes = <<>> THEN 0 ELSE Head(bytes) + 256 * DecodeLE(Tail(bytes))

---------------------------------------------------------------------------
(* Input frames (AVFrame): width, height, linesize[0..2], data[0..2], pts *)

\* the byte at row r, column c of plane p in the frame of pattern k
Pixel(k, p, r, c) == (37 * k + 64 * p + 8 * r + c + 1) % 256

\* what the producer leaves in the stride padding of a row
PadByte == 255

\* one plane buffer: rows of pw pixel bytes, each followed by pad padding bytes
PlaneData(k, p, pw, ph, pad) ==
    FlattenRows([r \in 1..ph |->
        [c \in 1..(pw + pad) |->
            IF c <= pw THEN Pixel(k, p, r - 1, c - 1) ELSE PadByte]])

\* a YUV420P frame of w x h pixels whose plane p carries pads[p] padding
\* bytes after each row
MkFrame(w, h, pads, pts, k) ==
    [width |-> w, height |-> h,
     linesize |-> <<w + pads[1], (w \div 2) + pads[2], (w \div 2) + pads[3]>>,
     data |-> <<PlaneData(k, 0, w, h, pads[1]),
                PlaneData(k, 1, w \div 2, h \div 2, pads[2]),
                PlaneData(k, 2, w \div 2, h \div 2, pads[3])>>,
     pts |-> pts]

\* the time bases a codec context may carry into open()
TimeBases == {[num |-> 1, den |-> 1], [num |-> 1, den |-> 3]}

\* the frames the producer pushes: an unpadded 2x2 frame with timestamp 0,
\* a padded 4x2 frame without timestamp, a 4x4 frame with more padding
Frames ==
    {MkFrame(2, 2, <<0, 0, 0>>, 0, 0),
     MkFrame(4, 2, <<1, 1, 1>>, AV_NOPTS_VALUE, 1),
     MkFrame(4, 4, <<2, 0, 1>>, 2, 2)}

\* frames that all take the copy path, of three payload sizes (6, 12, 24)
PaddedFrames ==
    {MkFrame(2, 2, <<1, 1, 1>>, 0, 0),
     MkFrame(4, 2, <<1, 1, 1>>, 0, 1),
     MkFrame(4, 4, <<2, 0, 1>>, 0, 2)}

\* the frames the encoder check draws: every even size up to 4x4, every
\* mix of padded and unpadded planes, every pixel pattern
SampleFrames ==
    {MkFrame(w, h, pads, 0, k) :
        w \in {2, 4}, h \in {2, 4},
        pads \in {<<a, b, c>> : a \in 0..MaxPad, b \in 0..MaxPad, c \in 0..MaxPad},
        k \in 0..MaxPattern}

\* the timestamps the encoder check draws: every value whose four low bytes
\* come from ByteSamples (all below 2^31 microseconds, under 36 minutes)
ByteSamples == {0, 1, 52, 85, 86, 89}

PtsSamples ==
    {b0 + 256 * (b1 + 256 * (b2 + 256 * b3)) :
        b0 \in ByteSamples, b1 \in ByteSamples, b2 \in ByteSamples, b3 \in ByteSamples}

\* the widths and heights the header check draws: even values from 2 up to
\* the largest even int, around each byte boundary of the field
DimSamples ==
    {2, 4, 254, 256, 258, 1080, 1920, 65534, 65536, 16777216, 2130706432,
     2147483646}

\* 64-bit timestamps: the extremes of each limb and values next to them,
\* INT64_MIN, -1, 0 and INT64_MAX among them
Int64Samples ==
    {[hi |-> h, mid |-> m, lo |-> l] :
        h \in {-32768, -256, -1, 0, 1, 255, 32767},
        m \in {0, 1, 65536, 8388608, 16777215},
        l \in {0, 1, 255, 256, 8388608, 16777215}}

---------------------------------------------------------------------------
(* write_frame_data: sizes, path selection and the bytes of each path *)

uv_width(frame) == frame.width \div 2
uv_height(frame) == frame.height \div 2
y_size(frame) == frame.width * frame.height
uv_size(frame) == uv_width(frame) * uv_height(frame)
frame_size(frame) == y_size(frame) + uv_size(frame) * 2

\* mutant: only the luma stride is compared with the row width
can_write_direct_LumaOnly(frame) == frame.linesize[1] = frame.width

can_write_direct(frame) ==
    /\ frame.linesize[1] = frame.width
    /\ frame.linesize[2] = uv_width(frame)
    /\ frame.linesize[3] = uv_width(frame)

\* fast path: the three iovec entries, gathered by writev in order
DirectBytes(frame) ==
       SubSeq(frame.data[1], 1, y_size(frame))
    \o SubSeq(frame.data[2], 1, uv_size(frame))
    \o SubSeq(frame.data[3], 1, uv_size(frame))

\* memcpy(dst, data[p] + y * linesize[p], len) for y = 0 .. rows - 1
CopyPlane(frame, p, rows, len) ==
    FlattenRows([y \in 1..rows |->
        SubSeq(frame.data[p], (y - 1) * frame.linesize[p] + 1,
                              (y - 1) * frame.linesize[p] + len)])

\* mutant: the V plane is copied before the U plane
CopyBytes_VBeforeU(frame) ==
       CopyPlane(frame, 1, frame.height, frame.width)
    \o CopyPlane(frame, 3, uv_height(frame), uv_width(frame))
    \o CopyPlane(frame, 2, uv_height(frame), uv_width(frame))

\* slow path: the contents of frame_buf after the three copy loops
CopyBytes(frame) ==
       CopyPlane(frame, 1, frame.height, frame.width)
    \o CopyPlane(frame, 2, uv_height(frame), uv_width(frame))
    \o CopyPlane(frame, 3, uv_height(frame), uv_width(frame))

---------------------------------------------------------------------------
(* System calls *)

Errnos == {"EPIPE", "EIO"}

\* what write()/writev() of n bytes may return: all n bytes, a short count
\* (the model's short write takes half the buffer), or -1 with errno set;
\* after a short count errno holds a stale value
WriteOutcomes(n) ==
         {[r |-> n, errno |-> "0"]}
    \cup {[r |-> n \div 2, errno |-> e] : e \in Errnos}
    \cup {[r |-> -1, errno |-> e] : e \in Errnos}

Full(n) == [r |-> n, errno |-> "0"]

\* the environment of one push: every system call succeeds, or one of them
\* fails (the first failure ends the push, so later outcomes are never read)
StepSize(frame, step) ==
    IF step = "header" THEN HeaderSize
    ELSE IF step = "pts" THEN PtsSize ELSE frame_size(frame)

Faults(frame) ==
         {[step |-> "none", oc |-> Full(0)], [step |-> "malloc", oc |-> Full(0)]}
    \cup UNION {{[step |-> s, oc |-> o] :
                    o \in WriteOutcomes(StepSize(frame, s)) \ {Full(StepSize(frame, s))}} :
                s \in {"header", "pts", "data"}}

OutcomeAt(fault, step, n) == IF fault.step = step THEN fault.oc ELSE Full(n)

\* one system call of an operation: the function, what it was given, its result
Call(fn, tag, buf, r) == [fn |-> fn, tag |-> tag, buf |-> buf, r |-> r]

\* the bytes the pipe accepted from a write of the frame of w x h pixels
Accepted(c, w, h) ==
    [tag |-> c.tag, bytes |-> SubSeq(c.buf, 1, c.r),
     full |-> c.r = Len(c.buf), width |-> w, height |-> h]

\* LOGD for a broken pipe, LOGW for any other error (write_pts, write_frame_data)
WriteErrorLog(errno) == IF errno = "EPIPE" THEN "D" ELSE "W"

---------------------------------------------------------------------------
(* The writers. Each takes the instance f and the outcome of its system    *)
(* call and yields: ok (its return value), fps (the instance afterwards),  *)
(* calls (the system calls issued) and logs.                               *)

NULL == [null |-> TRUE, size |-> 0]
Block(n) == [null |-> FALSE, size |-> n]

\* mutant: the dimensions are recorded before the write is checked
write_header_RecordsFirst(f, w, h, oc) ==
    LET c == Call("write", "header", HeaderBytes(w, h), oc.r)
        f1 == [f EXCEPT !.width = w, !.height = h]
    IN  IF oc.r # HeaderSize
        THEN [ok |-> FALSE, fps |-> f1, calls |-> <<c>>, logs |-> <<"E">>]
        ELSE [ok |-> TRUE, fps |-> f1, calls |-> <<c>>, logs |-> <<"I">>]

write_header(f, w, h, oc) ==
    LET c == Call("write", "header", HeaderBytes(w, h), oc.r)
    IN  IF oc.r # HeaderSize
        THEN [ok |-> FALSE, fps |-> f, calls |-> <<c>>, logs |-> <<"E">>]
        ELSE [ok |-> TRUE,
              fps |-> [f EXCEPT !.width = w, !.height = h],
              calls |-> <<c>>, logs |-> <<"I">>]

\* mutant: only a negative return counts as failure, a short write passes
write_pts_ChecksOnlyError(f, pts_us, oc) ==
    LET c == Call("write", "pts", PtsBytes(pts_us), oc.r)
    IN  IF oc.r < 0
        THEN [ok |-> FALSE, fps |-> f, calls |-> <<c>>,
              logs |-> <<WriteErrorLog(oc.errno)>>]
        ELSE [ok |-> TRUE, fps |-> f, calls |-> <<c>>, logs |-> <<>>]

write_pts(f, pts_us, oc) ==
    LET c == Call("write", "pts", PtsBytes(pts_us), oc.r)
    IN  IF oc.r # PtsSize
        THEN [ok |-> FALSE, fps |-> f, calls |-> <<c>>,
              logs |-> <<WriteErrorLog(oc.errno)>>]
        ELSE [ok |-> TRUE, fps |-> f, calls |-> <<c>>, logs |-> <<>>]

\* mutant: a buffer, once there, is reused whatever its size
NeedAlloc_OnlyWhenNull(f, size) == f.frame_buf.null

\* the slow path reallocates when there is no buffer or it is too small
NeedAlloc(f, size) == f.frame_buf.null \/ f.frame_buf_size < size

write_frame_data(f, frame, malloc_ok, oc) ==
    IF can_write_direct(frame)
    THEN LET c == Call("writev", "data", DirectBytes(frame), oc.r)
         IN  [ok |-> oc.r = frame_size(frame), fps |-> f, calls |-> <<c>>,
              logs |-> IF oc.r = frame_size(frame) THEN <<>>
                       ELSE <<WriteErrorLog(oc.errno)>>]
    ELSE LET alloc == NeedAlloc(f, frame_size(frame))
             ac == IF alloc
                   THEN <<Call("free", "frame_buf", <<>>, 0),
                          Call("malloc", "frame_buf", <<>>,
                               IF malloc_ok THEN frame_size(frame) ELSE 0)>>
                   ELSE <<>>
         IN  IF alloc /\ ~malloc_ok
             THEN [ok |-> FALSE, fps |-> [f EXCEPT !.frame_buf = NULL],
                   calls |-> ac, logs |-> <<"E">>]
             ELSE LET f1 == IF alloc
                            THEN [f EXCEPT !.frame_buf = Block(frame_size(frame)),
                                           !.frame_buf_size = frame_size(frame)]
                            ELSE f
                      c == Call("write", "data", CopyBytes(frame), oc.r)
                  IN  [ok |-> oc.r = frame_size(frame), fps |-> f1,
                       calls |-> ac \o <<c>>,
                       logs |-> IF oc.r = frame_size(frame) THEN <<>>
                                ELSE <<WriteErrorLog(oc.errno)>>]

---------------------------------------------------------------------------
(* av_rescale_q(a, bq, cq): a * bq / cq, rounded to nearest, halves away   *)
(* from zero (AV_ROUND_NEAR_INF)                                           *)

RescaleRnd(a, b, c) ==
    IF a >= 0 THEN (a * b + c \div 2) \div c
    ELSE -(((-a) * b + c \div 2) \div c)

av_rescale_q(a, bq, cq) == RescaleRnd(a, bq.num * cq.den, cq.num * bq.den)

\* mutant: the timestamp is passed on in the units of the codec
PtsMicros_Unscaled(f, frame) ==
    IF frame.pts # AV_NOPTS_VALUE THEN frame.pts ELSE 0

\* pts_us of sc_frame_pipe_sink_push
PtsMicros(f, frame) ==
    IF frame.pts # AV_NOPTS_VALUE
    THEN av_rescale_q(frame.pts, f.time_base, [num |-> 1, den |-> MicrosPerSecond])
    ELSE 0

---------------------------------------------------------------------------
(* sc_frame_pipe_sink_push *)

\* mutant: the stopped flag is not tested
PushRefused_IgnoresStopped(f) == f.fd < 0

\* push refuses to run on a closed or stopped instance
PushRefused(f) == f.fd < 0 \/ f.stopped

\* mutant: only the width is compared
NeedHeader_WidthOnly(f, frame) == frame.width # f.width

\* mutant: a header goes out with every frame
NeedHeader_Always(f, frame) == TRUE

\* the dimension-change test
NeedHeader(f, frame) == frame.width # f.width \/ frame.height # f.height

\* mutant: the failure paths forget to set the flag
Stop_Forgotten(f) == f

\* what a failed step leaves in the instance
Stop(f) == [f EXCEPT !.stopped = TRUE]

sc_frame_pipe_sink_push(f, frame, oh, ot, malloc_ok, od) ==
    IF PushRefused(f)
    THEN [ret |-> FALSE, fps |-> f, calls |-> <<>>, logs |-> <<>>]
    ELSE LET need == NeedHeader(f, frame)
             H == write_header(f, frame.width, frame.height, oh)
         IN  IF need /\ ~H.ok
             THEN [ret |-> FALSE, fps |-> Stop(H.fps), calls |-> H.calls,
                   logs |-> H.logs]
             ELSE LET f1 == IF need THEN H.fps ELSE f
                      c1 == IF need THEN H.calls ELSE <<>>
                      l1 == IF need THEN H.logs ELSE <<>>
                      T == write_pts(f1, Int64(PtsMicros(f1, frame)), ot)
                  IN  IF ~T.ok
                      THEN [ret |-> FALSE, fps |-> Stop(T.fps),
                            calls |-> c1 \o T.calls, logs |-> l1 \o T.logs]
                      ELSE LET D == write_frame_data(T.fps, frame, malloc_ok, od)
                           IN  IF ~D.ok
                               THEN [ret |-> FALSE, fps |-> Stop(D.fps),
                                     calls |-> c1 \o T.calls \o D.calls,
                                     logs |-> l1 \o T.logs \o D.logs]
                               ELSE [ret |-> TRUE, fps |-> D.fps,
                                     calls |-> c1 \o T.calls \o D.calls,
                                     logs |-> l1 \o T.logs \o D.logs]

---------------------------------------------------------------------------
(* sc_frame_pipe_sink_open and sc_frame_pipe_sink_close, on the instance f *)
(* and the environment: the entry at pipe_path and the descriptor table    *)

\* mutant: the entry is never removed
Unlink_LeavesEntry(entry, unlink_ok) == entry

\* unlink(pipe_path): the sink's own FIFO goes; a stale entry goes when the
\* call succeeds; on a missing entry the call fails and changes nothing
Unlink(entry, unlink_ok) ==
    IF entry = "own" \/ (entry = "stale" /\ unlink_ok) THEN "absent" ELSE entry

\* the descriptor open() returns: some value >= 0, the same name for each
PipeFd == 3

\* mutant: the last dimensions survive a successful open
OpenReset_KeepsDims(f, d) == [f EXCEPT !.fd = d, !.stopped = FALSE]

\* what a successful open() leaves in the instance
OpenReset(f, d) ==
    [f EXCEPT !.fd = d, !.width = 0, !.height = 0, !.stopped = FALSE]

\* mutant: the resets of open are hoisted before the FIFO is created
StoreTimeBase_ResetsEarly(f, tb) ==
    [f EXCEPT !.time_base = tb, !.width = 0, !.height = 0, !.stopped = FALSE]

\* the time base is stored before the FIFO is created
StoreTimeBase(f, tb) == [f EXCEPT !.time_base = tb]

\* mutant: the result of open() is kept in a local, fps->fd is not touched
OpenFailed_KeepsFd(f) == f

\* fps->fd = open(...) stores the failed result
OpenFailed(f) == [f EXCEPT !.fd = -1]

sc_frame_pipe_sink_open(f, entry, tb, unlink_ok, mkfifo_ok, open_ok) ==
    LET f1 == StoreTimeBase(f, tb)
        e1 == Unlink(entry, unlink_ok)
        made == e1 = "absent" /\ mkfifo_ok
        c1 == <<Call("unlink", "pipe_path", <<>>,
                     IF entry # "absent" /\ e1 = "absent" THEN 0 ELSE -1),
                Call("mkfifo", "pipe_path", <<>>, IF made THEN 0 ELSE -1)>>
    IN  IF ~made
        THEN [ret |-> FALSE, fps |-> f1, fifo |-> e1,
              calls |-> c1, logs |-> <<"E">>, failed |-> "mkfifo"]
        ELSE IF ~open_ok
        THEN [ret |-> FALSE, fps |-> OpenFailed(f1), fifo |-> Unlink("own", TRUE),
              calls |-> c1 \o <<Call("open", "pipe_path", <<>>, -1),
                                Call("unlink", "pipe_path", <<>>, 0)>>,
              logs |-> <<"I", "E">>, failed |-> "open"]
        ELSE [ret |-> TRUE, fps |-> OpenReset(f1, PipeFd), fifo |-> "own",
              calls |-> c1 \o <<Call("open", "pipe_path", <<>>, PipeFd)>>,
              logs |-> <<"I", "I">>, failed |-> "none"]

\* mutant: close() is called whatever the handle
HasFd_Always(f) == TRUE

\* the handle test of close
HasFd(f) == f.fd >= 0

sc_frame_pipe_sink_close(f, entry, unlink_ok) ==
    LET e1 == Unlink(entry, unlink_ok)
        u == Call("unlink", "pipe_path", <<>>,
                  IF entry # "absent" /\ e1 = "absent" THEN 0 ELSE -1)
    IN  IF HasFd(f)
        THEN [fps |-> [f EXCEPT !.fd = -1], fifo |-> e1,
              calls |-> <<Call("close", "fd", <<>>, 0), u>>, logs |-> <<"I">>]
        ELSE [fps |-> f, fifo |-> e1, calls |-> <<u>>, logs |-> <<"I">>]

---------------------------------------------------------------------------
(* The sink as a state machine *)

\* no call of open yet
NoTimeBase == [num |-> 0, den |-> 0]

\* sc_frame_pipe_sink_init; time_base is left uninitialised
InitFps(tb) ==
    [fd |-> -1, stopped |-> FALSE, width |-> 0, height |-> 0, time_base |-> tb,
     frame_buf |-> NULL, frame_buf_size |-> 0]

\* the encoder checks at rest
PtsIdle == pts_in = 0 /\ pts_buf = <<>>
DataIdle ==
    /\ frame_in = MkFrame(2, 2, <<0, 0, 0>>, 0, 0)
    /\ direct_out = <<>>
    /\ copy_out = <<>>
    /\ data_out = <<>>
HdrIdle == hdr_in = <<2, 2>> /\ hdr_buf = <<>>

EncIdle == PtsIdle /\ DataIdle /\ HdrIdle

SinkIdle ==
    /\ fifo = "absent"
    /\ stream = <<>>
    /\ op = "init"
    /\ ret = TRUE
    /\ calls = <<>>
    /\ logs = <<>>
    /\ open_fail = [step |-> "none", had_fd |-> FALSE]
    /\ open_tb = NoTimeBase

Init ==
    /\ fps \in {InitFps(tb) : tb \in TimeBases \cup {[num |-> 0, den |-> 1]}}
    /\ fifo \in {"absent", "stale"}
    /\ stream = <<>>
    /\ op = "init"
    /\ ret = TRUE
    /\ calls = <<>>
    /\ logs = <<>>
    /\ open_fail = [step |-> "none", had_fd |-> FALSE]
    /\ open_tb = NoTimeBase
    /\ EncIdle

IsWrite(c) == c.fn \in {"write", "writev"}

\* the writes of a push that put bytes into the pipe, each with the
\* dimensions and the pts of the frame pushed
AcceptedWrites(cs, frame) ==
    LET ws == SelectSeq(cs, LAMBDA c : IsWrite(c) /\ c.r > 0)
    IN  [i \in 1..Len(ws) |->
            Accepted(ws[i], frame.width, frame.height) @@ [pts |-> frame.pts]]

\* the frame packets begun in the stream
NPushed == Cardinality({i \in DOMAIN stream : stream[i].tag = "pts"})

\* the environment of one open: every system call succeeds, or one fails
\* (a failed unlink of a stale entry, a failed mkfifo, a failed open)
OpenFaults == {"none", "unlink", "mkfifo", "open"}

Open ==
    \E tb \in TimeBases, fail \in OpenFaults :
        LET R == sc_frame_pipe_sink_open(fps, fifo, tb,
                     fail # "unlink", fail # "mkfifo", fail # "open")
        IN  /\ fps' = R.fps
            /\ fifo' = R.fifo
            /\ stream' = IF HasFd(R.fps) /\ ~R.ret THEN stream ELSE <<>>
            /\ op' = "open"
            /\ ret' = R.ret
            /\ calls' = R.calls
            /\ logs' = R.logs
            /\ open_fail' = IF R.ret THEN [step |-> "none", had_fd |-> FALSE]
                            ELSE [step |-> R.failed, had_fd |-> HasFd(fps)]
            /\ open_tb' = tb
            /\ UNCHANGED encvars

Close ==
    \E unlink_ok \in BOOLEAN :
        LET R == sc_frame_pipe_sink_close(fps, fifo, unlink_ok)
        IN  /\ fps' = R.fps
            /\ fifo' = R.fifo
            /\ op' = "close"
            /\ ret' = TRUE
            /\ calls' = R.calls
            /\ logs' = R.logs
            /\ stream' = <<>>
            /\ UNCHANGED <<open_fail, open_tb>>
            /\ UNCHANGED encvars

PushFrom(frames) ==
    /\ PushRefused(fps) \/ NPushed < MaxPush
    /\ \E frame \in frames : \E fault \in Faults(frame) :
        LET R == sc_frame_pipe_sink_push(fps, frame,
                     OutcomeAt(fault, "header", HeaderSize),
                     OutcomeAt(fault, "pts", PtsSize),
                     fault.step # "malloc",
                     OutcomeAt(fault, "data", frame_size(frame)))
        IN  /\ fps' = R.fps
            /\ stream' = stream \o AcceptedWrites(R.calls, frame)
            /\ op' = "push"
            /\ ret' = R.ret
            /\ calls' = R.calls
            /\ logs' = R.logs
            /\ UNCHANGED <<fifo, open_fail, open_tb>>
            /\ UNCHANGED encvars

Push == PushFrom(Frames)

Next == Open \/ Close \/ Push

Spec == Init /\ [][Next]_vars

\* the sink fed with frames that all go through the scratch buffer
PushPadded == PushFrom(PaddedFrames)

NextBuf == Open \/ Close \/ PushPadded

SpecBuf == Init /\ [][NextBuf]_vars

---------------------------------------------------------------------------
(* The timestamp encoder alone: write_pts builds buf from pts_us *)

InitPts ==
    /\ fps = InitFps([num |-> 1, den |-> MicrosPerSecond])
    /\ SinkIdle
    /\ pts_in \in PtsSamples
    /\ pts_buf = <<>>
    /\ DataIdle
    /\ HdrIdle

EncodePts ==
    /\ pts_buf = <<>>
    /\ pts_buf' = write_pts(fps, Int64(pts_in), Full(PtsSize)).calls[1].buf
    /\ UNCHANGED <<pts_in, frame_in, direct_out, copy_out, data_out,
                   hdr_in, hdr_buf>>
    /\ UNCHANGED sinkvars

NextPts == EncodePts

SpecPts == InitPts /\ [][NextPts]_vars

---------------------------------------------------------------------------
(* The header encoder alone: write_header builds header from width, height *)

InitHdr ==
    /\ fps = InitFps([num |-> 1, den |-> MicrosPerSecond])
    /\ SinkIdle
    /\ PtsIdle
    /\ DataIdle
    /\ hdr_in \in DimSamples \X DimSamples
    /\ hdr_buf = <<>>

EncodeHdr ==
    /\ hdr_buf = <<>>
    /\ hdr_buf' = write_header(fps, hdr_in[1], hdr_in[2], Full(HeaderSize)).calls[1].buf
    /\ UNCHANGED <<pts_in, pts_buf, frame_in, direct_out, copy_out, data_out, hdr_in>>
    /\ UNCHANGED sinkvars

NextHdr == EncodeHdr

SpecHdr == InitHdr /\ [][NextHdr]_vars

---------------------------------------------------------------------------
\* the same encoder over the whole width of int64_t: pts_in is the int64_t
InitPts64 ==
    /\ fps = InitFps([num |-> 1, den |-> MicrosPerSecond])
    /\ SinkIdle
    /\ pts_in \in Int64Samples
    /\ pts_buf = <<>>
    /\ DataIdle
    /\ HdrIdle

EncodePts64 ==
    /\ pts_buf = <<>>
    /\ pts_buf' = write_pts(fps, pts_in, Full(PtsSize)).calls[1].buf
    /\ UNCHANGED <<pts_in, frame_in, direct_out, copy_out, data_out,
                   hdr_in, hdr_buf>>
    /\ UNCHANGED sinkvars

NextPts64 == EncodePts64

SpecPts64 == InitPts64 /\ [][NextPts64]_vars

---------------------------------------------------------------------------
(* The payload encoder alone: write_frame_data applied to one frame, and   *)
(* each of its two paths on its own. The writev path runs on the frames    *)
(* the selector gives it; the copy loops are run on every frame, unpadded  *)
(* ones included.                                                          *)

InitData ==
    /\ fps = InitFps([num |-> 1, den |-> MicrosPerSecond])
    /\ SinkIdle
    /\ PtsIdle
    /\ HdrIdle
    /\ frame_in \in SampleFrames
    /\ direct_out = <<>>
    /\ copy_out = <<>>
    /\ data_out = <<>>

EncodeDirect ==
    /\ can_write_direct(frame_in)
    /\ direct_out = <<>>
    /\ direct_out' = DirectBytes(frame_in)
    /\ UNCHANGED <<pts_in, pts_buf, frame_in, copy_out, data_out, hdr_in, hdr_buf>>
    /\ UNCHANGED sinkvars

EncodeCopy ==
    /\ copy_out = <<>>
    /\ copy_out' = CopyBytes(frame_in)
    /\ UNCHANGED <<pts_in, pts_buf, frame_in, direct_out, data_out, hdr_in, hdr_buf>>
    /\ UNCHANGED sinkvars

\* the last system call of a writer
LastCall(R) == R.calls[Len(R.calls)]

\* write_frame_data on a fresh instance, every system call succeeding
EncodeFrame ==
    /\ data_out = <<>>
    /\ data_out' = LastCall(write_frame_data(fps, frame_in, TRUE,
                                Full(frame_size(frame_in)))).buf
    /\ UNCHANGED <<pts_in, pts_buf, frame_in, direct_out, copy_out, hdr_in, hdr_buf>>
    /\ UNCHANGED sinkvars

NextData == EncodeDirect \/ EncodeCopy \/ EncodeFrame

SpecData == InitData /\ [][NextData]_vars

---------------------------------------------------------------------------
(* Reading the stream *)

\* the (width, height) a reader decodes from a dimension packet
HeaderDims(rec) ==
    <<DecodeLE(SubSeq(rec.bytes, 5, 8)), DecodeLE(SubSeq(rec.bytes, 9, 12))>>

\* the dimensions of the frame a timestamp or payload write belongs to
FrameDims(rec) == <<rec.width, rec.height>>

\* the index of the last header written before position i, 0 if there is none
LastHeaderBefore(i) ==
    IF \E j \in 1..(i - 1) : stream[j].tag = "header"
    THEN CHOOSE j \in 1..(i - 1) :
             /\ stream[j].tag = "header"
             /\ \A k \in (j + 1)..(i - 1) : stream[k].tag # "header"
    ELSE 0

TagIdx(tag) == {i \in DOMAIN stream : stream[i].tag = tag}

\* no write failed: every write was taken whole and the last push completed
Intact ==
    /\ \A i \in DOMAIN stream : stream[i].full
    /\ stream # <<>> => stream[Len(stream)].tag = "data"

\* the frame packets whose dimensions differ from the frame packet before
DimChanges ==
    {i \in TagIdx("pts") :
        \E p \in TagIdx("pts") :
            /\ p < i
            /\ \A q \in TagIdx("pts") : ~(p < q /\ q < i)
            /\ FrameDims(stream[p]) # FrameDims(stream[i])}

---------------------------------------------------------------------------
(* C1 *)

\* C1 (as stated): once stopped is true it stays true in every later state,
\* whatever open, push or close call follows.
C1_StoppedIsPermanent == [][fps.stopped => fps'.stopped]_vars

\* C1 (amended): once stopped is true it stays true across every push, every
\* close and every failed open; only a successful open clears it.
C1_StoppedUntilReopen ==
    [][(fps.stopped /\ ~(op' = "open" /\ ret')) => fps'.stopped]_vars

\* a stopped instance on which a later open has failed
C1_Witness == fps.stopped /\ op = "open" /\ ~ret

---------------------------------------------------------------------------
(* C2 *)

\* C2: every timestamp and payload write in the stream since open is preceded
\* by a complete dimension packet, and the last one before it decodes to the
\* width and height of the frame the write belongs to.
C2_HeaderCarriesFrameDims ==
    \A i \in DOMAIN stream :
        stream[i].tag \in {"pts", "data"} =>
            LET j == LastHeaderBefore(i)
            IN  /\ j > 0
                /\ stream[j].full
                /\ SubSeq(stream[j].bytes, 1, 4) = Magic
                /\ HeaderDims(stream[j]) = FrameDims(stream[i])

\* a frame packet that follows another without a header of its own, after a
\* second header has changed the dimensions
C2_Witness ==
    \E i \in DOMAIN stream :
        /\ i > 1
        /\ stream[i].tag = "pts"
        /\ stream[i - 1].tag = "data"
        /\ LastHeaderBefore(i) > 1

---------------------------------------------------------------------------
(* C3 *)

\* C3: in a stream without write failure each push wrote one timestamp and
\* one payload, preceded by a header exactly when the frame's dimensions
\* differ from those of the last header emitted before (or none was); so the
\* headers number one plus the dimension changes between consecutive frames.
C3_HeaderIffDimsChange ==
    Intact =>
        /\ \A i \in DOMAIN stream :
            /\ stream[i].tag = "pts" =>
                /\ i < Len(stream)
                /\ stream[i + 1].tag = "data"
                /\ FrameDims(stream[i + 1]) = FrameDims(stream[i])
                /\ (i > 1 /\ stream[i - 1].tag = "header") <=>
                       LET j == LastHeaderBefore(i - 1)
                       IN  j = 0 \/ HeaderDims(stream[j]) # FrameDims(stream[i])
            /\ stream[i].tag = "header" =>
                i < Len(stream) /\ stream[i + 1].tag = "pts"
            /\ stream[i].tag = "data" =>
                i > 1 /\ stream[i - 1].tag = "pts"
        /\ Cardinality(TagIdx("data")) = Cardinality(TagIdx("pts"))
        /\ stream # <<>> =>
               Cardinality(TagIdx("header")) = 1 + Cardinality(DimChanges)

\* four frames of dimensions A, A, B, A: three headers, four frame packets
C3_Witness ==
    /\ Intact
    /\ Len(stream) = 11
    /\ Cardinality(TagIdx("header")) = 3
    /\ Cardinality(TagIdx("data")) = 4
    /\ FrameDims(stream[2]) = FrameDims(stream[4])
    /\ FrameDims(stream[7]) # FrameDims(stream[4])
    /\ FrameDims(stream[10]) = FrameDims(stream[2])

---------------------------------------------------------------------------
(* Reading the calls of an operation *)

Writes(cs) == SelectSeq(cs, IsWrite)

NoWrites(cs) == Writes(cs) = <<>>

NoCloseCall(cs) == \A i \in DOMAIN cs : cs[i].fn # "close"

\* a write that was not taken whole, or an allocation that returned NULL
CallFailed(c) ==
    \/ IsWrite(c) /\ c.r # Len(c.buf)
    \/ c.fn = "malloc" /\ c.r = 0

SomeCallFailed(cs) == \E i \in DOMAIN cs : CallFailed(cs[i])

\* the instance a push leaves behind as its calls tell it, whatever errno was:
\* the dimensions of a header written whole, the buffer malloc returned
AfterCalls(f, cs) ==
    LET hs == SelectSeq(cs, LAMBDA c : c.tag = "header" /\ ~CallFailed(c))
        ms == SelectSeq(cs, LAMBDA c : c.fn = "malloc")
        f1 == IF hs = <<>> THEN f
              ELSE [f EXCEPT !.width = DecodeLE(SubSeq(hs[1].buf, 5, 8)),
                             !.height = DecodeLE(SubSeq(hs[1].buf, 9, 12))]
    IN  IF ms = <<>> THEN f1
        ELSE IF ms[1].r = 0 THEN [f1 EXCEPT !.frame_buf = NULL]
        ELSE [f1 EXCEPT !.frame_buf = Block(ms[1].r), !.frame_buf_size = ms[1].r]

---------------------------------------------------------------------------
(* C4 *)

\* C4: a push on an instance that holds no handle (never opened, closed) or
\* that is stopped returns failure, issues no system call and leaves every
\* field of the instance and the stream as they were.
C4_RefusedPushIsNoOp ==
    [][(op' = "push" /\ (fps.fd < 0 \/ fps.stopped)) =>
          (~ret' /\ calls' = <<>> /\ fps' = fps /\ stream' = stream)]_vars

\* a push refused by a stopped instance that still holds its handle and buffer
C4_Witness ==
    /\ op = "push" /\ ~ret /\ calls = <<>>
    /\ fps.stopped /\ fps.fd >= 0 /\ ~fps.frame_buf.null

---------------------------------------------------------------------------
(* C5 *)

\* C5: a push in Streaming in which a write is short or fails, or the buffer
\* allocation fails, returns failure and sets stopped; what it leaves in the
\* instance is told by its calls alone, whatever errno was (errno only picks
\* the log level).
C5_FailureStops ==
    [][(op' = "push" /\ ~(fps.fd < 0 \/ fps.stopped) /\ SomeCallFailed(calls')) =>
          /\ ~ret'
          /\ fps'.stopped
          /\ fps' = [AfterCalls(fps, calls') EXCEPT !.stopped = TRUE]]_vars

\* a push whose payload write met a broken pipe after header and timestamp
C5_Witness ==
    /\ op = "push" /\ ~ret /\ fps.stopped
    /\ Len(Writes(calls)) = 3
    /\ calls[Len(calls)].r = -1
    /\ logs[Len(logs)] = "D"

---------------------------------------------------------------------------
(* C6 *)

\* C6: the writes of one push are header (optional), timestamp, payload, in
\* that order, each at most once, and a write that fails is the last one.
C6_WriteOrder ==
    op = "push" =>
        LET ws == Writes(calls)
            tags == [i \in DOMAIN ws |-> ws[i].tag]
        IN  /\ tags \in {<<>>, <<"header">>, <<"header", "pts">>,
                         <<"header", "pts", "data">>, <<"pts">>, <<"pts", "data">>}
            /\ \A i \in DOMAIN ws : CallFailed(ws[i]) => i = Len(ws)
            /\ ret => (ws # <<>> /\ ws[Len(ws)].tag = "data")

\* a push whose header went out whole and whose timestamp write was short
C6_Witness ==
    /\ op = "push"
    /\ Len(Writes(calls)) = 2
    /\ Writes(calls)[2].tag = "pts"
    /\ Writes(calls)[2].r > 0
    /\ CallFailed(Writes(calls)[2])

---------------------------------------------------------------------------
(* C7 *)

\* C7 (as stated): every push issued after a failed open and before a later
\* successful open returns failure and writes nothing.
C7_PushFailsAfterFailedOpen ==
    [][(open_fail.step # "none" /\ op' = "push") =>
          (~ret' /\ NoWrites(calls'))]_vars

\* the failed opens that leave no handle: the open-for-writing call failed,
\* or the FIFO could not be created on an instance that held no handle
LeftNoHandle ==
    \/ open_fail.step = "open"
    \/ open_fail.step = "mkfifo" /\ ~open_fail.had_fd

\* C7 (amended): after an open that fails at the open-for-writing step, or at
\* pipe creation on an instance that held no handle, the instance holds no
\* handle, and every push before a later successful open returns failure and
\* writes nothing.
C7_PushFailsAfterOpenLeftNoHandle ==
    [][LeftNoHandle =>
          /\ fps.fd < 0
          /\ op' = "push" => (~ret' /\ NoWrites(calls'))]_vars

\* a push refused after a re-open of a streaming instance failed at open()
C7_Witness ==
    /\ open_fail.step = "open" /\ open_fail.had_fd
    /\ op = "push" /\ ~ret

---------------------------------------------------------------------------
(* C8 *)

\* C8: a close leaves no handle and no FIFO of the instance; on an instance
\* without handle (never opened, already closed) it calls no close() and
\* leaves every field as it was, so a second close in succession changes
\* nothing the first one left.
C8_CloseIdempotent ==
    [][op' = "close" =>
          /\ fps'.fd < 0
          /\ fifo' # "own"
          /\ fps.fd < 0 => (fps' = fps /\ NoCloseCall(calls'))
          /\ op = "close" =>
                /\ fps' = fps
                /\ NoCloseCall(calls')
                /\ fifo = "absent" => fifo' = "absent"]_vars

\* a second close of an instance that was opened, fed a frame and closed
C8_Witness ==
    /\ op = "close" /\ NoCloseCall(calls)
    /\ fps.fd < 0 /\ fps.width > 0 /\ fifo = "absent"

---------------------------------------------------------------------------
(* C9 *)

\* C9 (as stated): for every timestamp of a practical recording duration the
\* first four bytes write_pts emits differ from the magic "YUV4", so a reader
\* testing four bytes against the magic never takes a frame packet for a
\* dimension packet.
C9_TimestampNeverMagic ==
    pts_buf # <<>> => SubSeq(pts_buf, 1, 4) # Magic

---------------------------------------------------------------------------
(* C10 *)

\* C10: for a frame whose three strides equal the row widths, the bytes the
\* writev path gathers and the bytes the copy loops put into the scratch
\* buffer are the same.
C10_PathsAgree ==
    (can_write_direct(frame_in) /\ direct_out # <<>> /\ copy_out # <<>>) =>
        direct_out = copy_out

\* an unpadded 4x4 frame that both paths have encoded
C10_Witness ==
    /\ can_write_direct(frame_in)
    /\ frame_in.width = 4 /\ frame_in.height = 4
    /\ Len(direct_out) = frame_size(frame_in)
    /\ Len(copy_out) = frame_size(frame_in)

---------------------------------------------------------------------------
(* C11 *)

\* the pixel bytes of plane p of a frame, pw per row and ph rows, each taken
\* at its row and column in the plane buffer
PlanePixels(frame, p, pw, ph) ==
    [i \in 1..(pw * ph) |->
        frame.data[p][((i - 1) \div pw) * frame.linesize[p] + ((i - 1) % pw) + 1]]

\* C11: for a frame of even width and height, whatever the stride of each
\* plane (equal to the row width or larger), the payload write_frame_data
\* hands to the pipe has width * height * 3 / 2 bytes: the Y rows of width
\* bytes, then the U rows, then the V rows of width / 2 bytes and height / 2
\* rows, and no byte of the stride padding.
C11_PayloadIsPackedPlanes ==
    data_out # <<>> =>
        /\ Len(data_out) = (frame_in.width * frame_in.height * 3) \div 2
        /\ data_out =
                  PlanePixels(frame_in, 1, frame_in.width, frame_in.height)
               \o PlanePixels(frame_in, 2, frame_in.width \div 2, frame_in.height \div 2)
               \o PlanePixels(frame_in, 3, frame_in.width \div 2, frame_in.height \div 2)
        /\ \A i \in DOMAIN data_out : data_out[i] # PadByte

\* a 4x4 frame with an unpadded luma plane and padded chroma planes, encoded
C11_Witness ==
    /\ frame_in.width = 4 /\ frame_in.height = 4
    /\ frame_in.linesize[1] = 4
    /\ frame_in.linesize[2] > 2 /\ frame_in.linesize[3] > 2
    /\ Len(data_out) = 24

---------------------------------------------------------------------------
(* C12 *)

\* C12 (as stated): across every open, push and close, pushes of smaller
\* frames and pushes whose allocation fails included, the recorded capacity
\* of the scratch buffer (frame_buf_size) never decreases.
C12_CapacityNeverDecreases ==
    [][fps'.frame_buf_size >= fps.frame_buf_size]_vars

---------------------------------------------------------------------------
(* C13 *)

\* every byte the pipe accepted since open, in order
StreamBytes == FlattenRows([i \in DOMAIN stream |-> stream[i].bytes])

\* the state right after the first push since open, when it succeeded: the
\* stream holds what this push wrote and nothing from an earlier one
FirstPushDone == op = "push" /\ ret /\ Len(stream) = Len(Writes(calls))

\* C13: a successful first push after open writes 12 header bytes, then 8
\* timestamp bytes, then the payload, and nothing else; for the 2x2 frame
\* with timestamp 0 the stream is "YUV4", width 2, height 2, timestamp 0, the
\* 4 Y bytes, the U byte and the V byte: 26 bytes.
C13_FirstPushStream ==
    FirstPushDone =>
        /\ Len(stream) = 3
        /\ stream[1].tag = "header" /\ Len(stream[1].bytes) = 12
        /\ stream[2].tag = "pts" /\ Len(stream[2].bytes) = 8
        /\ stream[3].tag = "data"
        /\ Len(stream[3].bytes) = (stream[3].width * stream[3].height * 3) \div 2
        /\ \A i \in 1..3 : stream[i].bytes = Writes(calls)[i].buf
        /\ SubSeq(StreamBytes, 1, 4) = <<89, 85, 86, 52>>
        /\ (stream[3].width = 2 /\ stream[3].height = 2) =>
              /\ Len(StreamBytes) = 26
              /\ SubSeq(StreamBytes, 1, 20) =
                    <<89, 85, 86, 52, 2, 0, 0, 0, 2, 0, 0, 0,
                      0, 0, 0, 0, 0, 0, 0, 0>>
              /\ SubSeq(StreamBytes, 21, 26) =
                    <<Pixel(0, 0, 0, 0), Pixel(0, 0, 0, 1),
                      Pixel(0, 0, 1, 0), Pixel(0, 0, 1, 1),
                      Pixel(0, 1, 0, 0), Pixel(0, 2, 0, 0)>>

\* the 2x2 frame with timestamp 0 pushed first after an open with time base 1/1
C13_Witness ==
    /\ FirstPushDone
    /\ fps.time_base = [num |-> 1, den |-> 1]
    /\ stream[3].width = 2 /\ stream[3].height = 2
    /\ Len(StreamBytes) = 26

---------------------------------------------------------------------------
(* C14 *)

\* a reader's decoding of eight bytes as a little-endian two's-complement
\* 64-bit integer, in the limbs of Int64
DecodeInt64(bytes) ==
    LET top == DecodeLE(SubSeq(bytes, 7, 8))
    IN  [hi |-> IF top >= 32768 THEN top - 65536 ELSE top,
         mid |-> DecodeLE(SubSeq(bytes, 4, 6)),
         lo |-> DecodeLE(SubSeq(bytes, 1, 3))]

\* C14: the eight bytes write_pts builds for a signed 64-bit timestamp,
\* decoded as a little-endian two's-complement integer, give the timestamp
\* back, for every representable value, negative ones included.
C14_PtsRoundTrip ==
    pts_buf # <<>> =>
        /\ Len(pts_buf) = 8
        /\ \A i \in 1..8 : pts_buf[i] \in 0..255
        /\ DecodeInt64(pts_buf) = pts_in

\* INT64_MIN encoded: seven zero bytes and 0x80
C14_Witness ==
    /\ pts_in = [hi |-> -32768, mid |-> 0, lo |-> 0]
    /\ pts_buf = <<0, 0, 0, 0, 0, 0, 0, 128>>

---------------------------------------------------------------------------
(* C15 *)

\* C15: for every even width and height of at least 2, bytes 0-3 of the
\* dimension packet write_header builds are "YUV4", and bytes 4-7 and 8-11,
\* decoded as little-endian unsigned 32-bit integers, are the width and the
\* height.
C15_HeaderRoundTrip ==
    hdr_buf # <<>> =>
        /\ Len(hdr_buf) = 12
        /\ \A i \in 1..12 : hdr_buf[i] \in 0..255
        /\ SubSeq(hdr_buf, 1, 4) = <<89, 85, 86, 52>>
        /\ DecodeLE(SubSeq(hdr_buf, 5, 8)) = hdr_in[1]
        /\ DecodeLE(SubSeq(hdr_buf, 9, 12)) = hdr_in[2]

\* the header of a 1920x1080 frame: 80 07 00 00, 38 04 00 00
C15_Witness ==
    /\ hdr_in = <<1920, 1080>>
    /\ hdr_buf = <<89, 85, 86, 52, 128, 7, 0, 0, 56, 4, 0, 0>>

---------------------------------------------------------------------------
(* C16 *)

\* what open resets, on success only
ResetByOpen ==
    IF ret'
    THEN fps'.width = 0 /\ fps'.height = 0 /\ ~fps'.stopped
    ELSE /\ fps'.width = fps.width /\ fps'.height = fps.height
         /\ fps'.stopped = fps.stopped

\* C16 (as stated): open sets the last dimensions to unknown, clears stopped
\* and captures the time base only when it succeeds; a failed open leaves
\* the last dimensions, the stopped flag and the stored time base as they
\* were.
C16_FailedOpenChangesNothing ==
    [][op' = "open" =>
        /\ ResetByOpen
        /\ fps'.time_base = IF ret' THEN open_tb' ELSE fps.time_base]_vars

\* C16 (amended): open sets the last dimensions to unknown and clears
\* stopped only when it succeeds, and a failed open leaves both as they
\* were; the time base is stored by every call of open, failed or not.
C16_OpenStoresTimeBaseAlways ==
    [][op' = "open" => (ResetByOpen /\ fps'.time_base = open_tb')]_vars

\* an open with time base 1/3 has failed on a stopped sink that had written
\* a 4x4 frame whose timestamp 2 it rescaled with time base 1/1
C16_Witness ==
    /\ op = "open" /\ ~ret
    /\ fps.stopped /\ fps.width = 4 /\ fps.height = 4
    /\ fps.time_base = [num |-> 1, den |-> 3]
    /\ \E i \in DOMAIN stream :
          stream[i].tag = "pts" /\ stream[i].bytes = PtsBytes(Int64(2 * MicrosPerSecond))

---------------------------------------------------------------------------
(* C17 *)

\* the integer an int64_t of up to 31 bits holds
IntOf(v) == v.mid * Limb + v.lo

\* u is pts * tb in microseconds, rounded to the nearest integer
IsMicrosOf(u, pts, tb) ==
    LET d == u * tb.den - pts * tb.num * MicrosPerSecond
    IN  2 * (IF d < 0 THEN -d ELSE d) <= tb.den

\* the timestamp packets the step has added to the stream
NewPtsPackets ==
    {i \in (Len(stream) + 1)..Len(stream') : stream'[i].tag = "pts" /\ stream'[i].full}

\* C17: the timestamp field push writes for a frame whose pts is the
\* undefined sentinel is eight zero bytes, whatever the time base; for any
\* other frame it is the pts rescaled to microseconds from the time base
\* captured at open.
C17_TimestampField ==
    [][op' = "push" =>
        \A i \in NewPtsPackets :
            LET v == DecodeInt64(stream'[i].bytes)
            IN  IF stream'[i].pts = AV_NOPTS_VALUE
                THEN stream'[i].bytes = <<0, 0, 0, 0, 0, 0, 0, 0>>
                ELSE /\ v.hi = 0
                     /\ IsMicrosOf(IntOf(v), stream'[i].pts, open_tb)]_vars

\* under time base 1/3 the stream holds the timestamp of a frame without pts
\* (zero) and that of a frame with pts 2 (666667 microseconds)
C17_Witness ==
    /\ op = "push" /\ ret
    /\ open_tb = [num |-> 1, den |-> 3]
    /\ \E i \in DOMAIN stream, j \in DOMAIN stream :
          /\ stream[i].tag = "pts" /\ stream[i].pts = AV_NOPTS_VALUE
          /\ stream[i].bytes = <<0, 0, 0, 0, 0, 0, 0, 0>>
          /\ stream[j].tag = "pts" /\ stream[j].pts = 2
          /\ stream[j].bytes = PtsBytes(Int64(666667))

---------------------------------------------------------------------------
(* C18 *)

\* C18: the FIFO this instance created is at the path only from a successful
\* mkfifo in open until the next close: it is there only while the instance
\* holds the descriptor of a successful open, it is gone after every close,
\* and it is gone after every open that failed at the open-for-writing step.
C18_PipeEntryLifetime ==
    /\ fifo = "own" => (HasFd(fps) /\ open_fail.step = "none")
    /\ op = "close" => fifo # "own"
    /\ (op = "open" /\ ~ret /\ open_fail.step = "open") => fifo # "own"

\* a re-open has created the FIFO anew, failed to open it and removed it
C18_Witness ==
    /\ op = "open" /\ ~ret
    /\ open_fail = [step |-> "open", had_fd |-> TRUE]
    /\ calls[2].fn = "mkfifo" /\ calls[2].r = 0
    /\ calls[Len(calls)].fn = "unlink"
    /\ fifo = "absent"

---------------------------------------------------------------------------
(* C19 *)

\* the write of the copy path, if the push got that far
CopyWrites == {i \in DOMAIN calls : calls[i].fn = "write" /\ calls[i].tag = "data"}

\* C19: whenever the copy path has filled the scratch buffer with a frame and
\* written it, the buffer is allocated and the block behind it has at least
\* the size of that frame's payload, whatever sizes came before and whether
\* or not an allocation failed earlier.
C19_CopyBufferLargeEnough ==
    op = "push" =>
        \A i \in CopyWrites :
            /\ ~fps.frame_buf.null
            /\ fps.frame_buf.size >= Len(calls[i].buf)

\* a 2x2 frame copied into the 24-byte buffer a 4x4 frame left, no allocation
C19_Witness ==
    /\ op = "push" /\ ret
    /\ \E i \in CopyWrites : Len(calls[i].buf) = 6
    /\ \A i \in DOMAIN calls : calls[i].fn # "malloc"
    /\ fps.frame_buf = Block(24)

---------------------------------------------------------------------------
(* C20 *)

\* the dimensions a reader holds after the packets s: those of the last
\* dimension packet that arrived whole, <<0, 0>> when there is none
LastFullHeader(s) ==
    LET H == {i \in DOMAIN s : s[i].tag = "header" /\ s[i].full}
    IN  IF H = {} THEN <<0, 0>>
        ELSE HeaderDims(s[CHOOSE i \in H : \A j \in H : j <= i])

\* the step is a push whose header write was refused or cut short
HeaderWriteFailed ==
    /\ op' = "push"
    /\ \E i \in DOMAIN calls' : calls'[i].tag = "header" /\ CallFailed(calls'[i])

\* C20: the width and height kept in the instance change only when a header
\* write is taken whole, or when open succeeds and resets them; a failed or
\* short header write leaves them as they were; so while the pipe is open
\* they are the dimensions of the last header written whole since the last
\* successful open, or unknown (0, 0) if there is none.
C20_DimsFollowHeaders ==
    [][/\ (fps'.width # fps.width \/ fps'.height # fps.height) =>
             \/ op' = "open" /\ ret' /\ fps'.width = 0 /\ fps'.height = 0
             \/ /\ op' = "push"
                /\ \E i \in DOMAIN calls' :
                      /\ calls'[i].tag = "header" /\ ~CallFailed(calls'[i])
                      /\ calls'[i].buf = HeaderBytes(fps'.width, fps'.height)
       /\ HeaderWriteFailed => (fps'.width = fps.width /\ fps'.height = fps.height)
       /\ HasFd(fps') => <<fps'.width, fps'.height>> = LastFullHeader(stream')]_vars

\* the header of a 4x4 frame was cut short after a 2x2 header had been
\* written whole: the instance still holds 2x2
C20_Witness ==
    /\ op = "push" /\ ~ret /\ calls # <<>>
    /\ calls[1].tag = "header" /\ calls[1].buf = HeaderBytes(4, 4)
    /\ calls[1].r > 0 /\ CallFailed(calls[1])
    /\ fps.width = 2 /\ fps.height = 2
    /\ LastFullHeader(stream) = <<2, 2>>

====
